---------------------------- MODULE Spec2Model ----------------------------
(***************************************************************************)
(* Model of ZoweJCLExecutionCLI.py: main() reads a manifest, and for each  *)
(* row submits the job, polls its status until terminal, reads its return  *)
(* code and logs, mails the logs and appends one row to the report.        *)
(*                                                                         *)
(* Texts (Python str) are sequences of one-character strings, so that the  *)
(* substring tests, strip() and split(" ") of the source are computed as   *)
(* the source computes them.                                               *)
(***************************************************************************)
EXTENDS Integers, Sequences, FiniteSets, TLC

VARIABLES
    manifest,     \* input.csv as csv.reader parses it: a sequence of rows
    report,       \* output.csv: the rows written so far (header included)
    remoteJobs,   \* remote system: number of jobs it has accepted so far
    pc,           \* position of main()
    fault,        \* the exception that ended main(), "none" while there is none
    jcls,         \* main: jcls
    k,            \* main: position of the for loop in jcls (0 before the loop)
    jcl_name,     \* main: jcl_name
    email,        \* main: email
    job_id,       \* main: job_id (None after a not-found submission)
    output_code,  \* main: output_code
    logs,         \* main: logs
    rc_stdout,    \* get_output_code: result.stdout of the return-code query
    calls,        \* history: remote commands issued, [op, entry, arg]
    returns,      \* history: values the remote methods returned, [op, entry, ret]
    mails,        \* history: send_email calls, in order
    rowEntry,     \* history: manifest position each data row was written for
    lastStatus,   \* history: the latest get_job_status call and its result
    slept,        \* history: time slept since the latest status query
    lastReply,    \* history: how the latest remote command ended
    rerun,        \* TRUE in a second run of main() on the same manifest
    prevShape,    \* history: shape of the report the first run left
    prevFault     \* history: how the first run ended

vars == <<manifest, report, remoteJobs, pc, fault, jcls, k, jcl_name, email,
          job_id, output_code, logs, rc_stdout, calls, returns, mails,
          rowEntry, lastStatus, slept, lastReply, rerun, prevShape,
          prevFault>>

----------------------------------------------------------------------------
(* Bounds of the model *)

MaxManifest == 2

MaxLen == 4

----------------------------------------------------------------------------
(* Text constants of the source *)

NOT_FOUND_MARKER ==
    <<"D","A","T","A","_","S","E","T","_","N","O","T","_","F","O","U","N","D">>

TERMINAL_MARKER ==
    <<"S","T","A","T","U","S",":"," ","O","U","T","P","U","T">>

SUCCESS_CODE == <<"0","0","0","0">>

EMAIL_SUBJECT ==
    <<"J","C","L"," ","E","x","e","c","u","t","i","o","n"," ","L","o","g","s">>

HEADER ==
    << <<"J","C","L"," ","N","a","m","e">>,
       <<"O","u","t","p","u","t"," ","C","o","d","e">>,
       <<"J","C","L"," ","P","a","s","s","/","F","a","i","l">>,
       <<"E","m","a","i","l"," ","S","e","n","t">> >>

NA == <<"N","/","A">>

PASS == <<"P","a","s","s">>

FAIL == <<"F","a","i","l">>

YES == <<"Y","e","s">>

NO == <<"N","o">>

SleepSeconds == 5

\* Python's None: no text equals it (no character is the string "None")
None == <<"None">>

----------------------------------------------------------------------------
(* str operations of Python, as the source uses them *)

Whitespace == {" ", "\t", "\n", "\r"}

\* sub in s
Contains(s, sub) ==
    \E i \in 0..(Len(s) - Len(sub)) : SubSeq(s, i + 1, i + Len(sub)) = sub

RECURSIVE LStrip(_)
LStrip(s) ==
    IF s # <<>> /\ Head(s) \in Whitespace THEN LStrip(Tail(s)) ELSE s

RECURSIVE RStrip(_)
RStrip(s) ==
    IF s # <<>> /\ s[Len(s)] \in Whitespace
    THEN RStrip(SubSeq(s, 1, Len(s) - 1))
    ELSE s

\* s.strip()
Strip(s) == RStrip(LStrip(s))

\* s.split(sep) for a one-character sep: the pieces between the separators,
\* empty pieces kept
RECURSIVE Split(_, _)
Split(s, sep) ==
    IF \E i \in 1..Len(s) : s[i] = sep
    THEN LET i == CHOOSE j \in 1..Len(s) :
                      s[j] = sep /\ \A h \in 1..(j - 1) : s[h] # sep
         IN  <<SubSeq(s, 1, i - 1)>> \o Split(SubSeq(s, i + 1, Len(s)), sep)
    ELSE <<s>>

Last(seq) == seq[Len(seq)]

----------------------------------------------------------------------------
(* The manifest (input.csv) *)

PAYROLL01 == <<"P","A","Y","R","O","L","L","0","1">>

MISSING99 == <<"M","I","S","S","I","N","G","9","9">>

OPS == <<"o","p","s","@","x",".","c","o","m">>

DEV == <<"d","e","v","@","x",".","c","o","m">>

\* Rows csv.reader can yield: both columns, the address column missing, and
\* the empty list of a blank line
ManifestRows == { <<PAYROLL01, OPS>>, <<MISSING99, DEV>>, <<PAYROLL01>>, <<>> }

Manifests == UNION { [1..n -> ManifestRows] : n \in 0..MaxManifest }

----------------------------------------------------------------------------
(* The remote system: what subprocess.run can give back to run_command.   *)
(* A result is the captured [stdout, stderr]; an exit status is not read   *)
(* by the source (run_command passes no check=True).                       *)

DigitChar == <<"0","1","2","3","4","5","6","7","8","9">>

RECURSIVE Decimal(_)
Decimal(n) ==
    IF n < 10 THEN <<DigitChar[n + 1]>>
    ELSE Decimal(n \div 10) \o <<DigitChar[(n % 10) + 1]>>

\* The remote gives each accepted submission a fresh job id
JobIdText(n) == <<"J","O","B">> \o Decimal(n)

ErrorText == <<"E",":"," ","5","0","0","\n">>

\* zowe jobs submit data-set: accepted, data set not found, any other error
SubmitReplies ==
    { [kind |-> "ok",
       stdout |-> JobIdText(remoteJobs + 1) \o <<"\n">>, stderr |-> <<>>],
      [kind |-> "notfound", stdout |-> <<>>,
       stderr |-> <<"E",":"," ">> \o NOT_FOUND_MARKER \o <<"\n">>],
      [kind |-> "error", stdout |-> <<>>, stderr |-> ErrorText] }

\* zowe jobs view job-status-by-jobid: still active, finished, error
StatusReplies ==
    { [kind |-> "ok",
       stdout |-> <<"S","T","A","T","U","S",":"," ","A","C","T","I","V","E","\n">>,
       stderr |-> <<>>],
      [kind |-> "ok", stdout |-> TERMINAL_MARKER \o <<"\n">>, stderr |-> <<>>],
      [kind |-> "error", stdout |-> <<>>, stderr |-> ErrorText] }

\* zowe jobs view rc-for-jobid
RcReplies ==
    { [kind |-> "ok", stdout |-> <<"C","C"," ","0","0","0","0","\n">>, stderr |-> <<>>],
      [kind |-> "ok", stdout |-> <<"C","C"," ","0","0","0","8","\n">>, stderr |-> <<>>],
      [kind |-> "ok", stdout |-> <<"C","C"," ","0","\n">>, stderr |-> <<>>],
      [kind |-> "ok", stdout |-> <<"A","B","E","N","D","\n">>, stderr |-> <<>>],
      [kind |-> "ok", stdout |-> <<"C","C"," ","0","0","0","0"," ","\n">>, stderr |-> <<>>],
      [kind |-> "error", stdout |-> <<>>, stderr |-> ErrorText] }

\* zowe jobs view sfbi <job> 103
LogReplies ==
    { [kind |-> "ok", stdout |-> <<"I","E","F","4","0","4","I","\n">>, stderr |-> <<>>],
      [kind |-> "error", stdout |-> <<>>, stderr |-> ErrorText] }

----------------------------------------------------------------------------
(* The methods of ZoweCLI, as functions of the result of run_command *)

\* submit_jcl treating every reply that wrote to stderr as a failed
\* submission
submit_jcl_strict(result) ==
    IF result.stderr # <<>>
    THEN None
    ELSE Strip(result.stdout)

submit_jcl(result) ==
    IF Contains(result.stderr, NOT_FOUND_MARKER)
    THEN None
    ELSE Strip(result.stdout)

\* get_job_status testing for a shorter marker, which an active job shows too
get_job_status_loose(result) ==
    Contains(result.stdout, <<"S","T","A","T","U","S",":">>)

\* get_job_status looking for a status text the remote system never prints
get_job_status_done(result) ==
    Contains(result.stdout, <<"S","T","A","T","U","S",":"," ","D","O","N","E">>)

get_job_status(result) == Contains(result.stdout, TERMINAL_MARKER)

get_output_code(stdout) == Strip(Last(Split(stdout, " ")))

get_job_logs(result) == result.stdout

\* Verdict comparing the code as a number: "0" passes as "0000" does
VerdictNumeric(code) ==
    IF code \in {SUCCESS_CODE, <<"0">>} THEN PASS ELSE FAIL

Verdict(code) == IF code = SUCCESS_CODE THEN PASS ELSE FAIL

\* The not-found row claiming that a message was sent
NotFoundRowYes(name) == <<name, NA, FAIL, YES>>

NotFoundRow(name) == <<name, NA, FAIL, NO>>

OutcomeRow(name, code) == <<name, code, Verdict(code), YES>>

\* send_email called with subject and body in each other's place
MailSwapped(to, subject, body) ==
    [entry |-> k, to |-> to, subject |-> body, body |-> subject]

Mail(to, subject, body) ==
    [entry |-> k, to |-> to, subject |-> subject, body |-> body]

----------------------------------------------------------------------------
(* History helpers *)

Call(op, arg) == [op |-> op, entry |-> k, arg |-> arg]

Return(op, ret) == [op |-> op, entry |-> k, ret |-> ret]

NoStatus == [entry |-> 0, job |-> <<>>, terminal |-> FALSE]

Reply(op, kind) == [op |-> op, entry |-> k, kind |-> kind]

NoReply == [op |-> "none", entry |-> 0, kind |-> "none"]

Shape(rep) ==
    [header |-> IF rep = <<>> THEN <<>> ELSE rep[1],
     refs   |-> [j \in 1..(Len(rep) - 1) |-> rep[j + 1][1]]]

NoShape == [header |-> <<>>, refs |-> <<>>]

----------------------------------------------------------------------------
(* Initial state: a manifest on disk, no report yet, main() about to run *)

Fresh ==
    /\ pc = "read"
    /\ fault = "none"
    /\ jcls = <<>>
    /\ k = 0
    /\ jcl_name = <<>>
    /\ email = <<>>
    /\ job_id = <<>>
    /\ output_code = <<>>
    /\ logs = <<>>
    /\ rc_stdout = <<>>
    /\ calls = {}
    /\ returns = {}
    /\ mails = <<>>
    /\ lastStatus = NoStatus
    /\ slept = 0
    /\ lastReply = NoReply

Init ==
    /\ manifest \in Manifests
    /\ report = <<>>
    /\ rowEntry = <<>>
    /\ remoteJobs = 0
    /\ rerun = FALSE
    /\ prevShape = NoShape
    /\ prevFault = "none"
    /\ Fresh

----------------------------------------------------------------------------
(* main(), one action per step *)

\* what an earlier run of main() left behind
earlier == <<rerun, prevShape, prevFault>>

\* Raise under a catch-all around the loop body that goes on to the next entry
RaiseCaught(exc) ==
    /\ pc' = "for"
    /\ fault' = exc

\* An exception leaves main(); nothing catches it
Raise(exc) ==
    /\ pc' = "crashed"
    /\ fault' = exc

\* subprocess.run raises instead of returning a result (the command could
\* not be started, or its output not decoded as text)
LaunchFails(op) ==
    /\ Raise("OSError")
    /\ lastReply' = Reply(op, "raise")

\* with open('input.csv') ...: jcls = list(reader)
ReadManifest ==
    /\ pc = "read"
    /\ jcls' = manifest
    /\ pc' = "open"
    /\ UNCHANGED <<manifest, report, remoteJobs, fault, k, jcl_name, email,
                   job_id, output_code, logs, rc_stdout, calls, returns,
                   mails, rowEntry, lastStatus, slept, lastReply, earlier>>

\* OpenReport with the file opened in append mode
OpenReportAppend ==
    /\ pc = "open"
    /\ report' = Append(report, HEADER)
    /\ rowEntry' = rowEntry
    /\ pc' = "for"
    /\ UNCHANGED <<manifest, remoteJobs, fault, jcls, k, jcl_name, email,
                   job_id, output_code, logs, rc_stdout, calls, returns,
                   mails, lastStatus, slept, lastReply, earlier>>

\* OpenReport that truncates the file but writes no header
OpenReportNoHeader ==
    /\ pc = "open"
    /\ report' = <<>>
    /\ rowEntry' = <<>>
    /\ pc' = "for"
    /\ UNCHANGED <<manifest, remoteJobs, fault, jcls, k, jcl_name, email,
                   job_id, output_code, logs, rc_stdout, calls, returns,
                   mails, lastStatus, slept, lastReply, earlier>>

\* with open('output.csv', 'w') ...: the file is truncated, the header written
OpenReport ==
    /\ pc = "open"
    /\ report' = <<HEADER>>
    /\ rowEntry' = <<>>
    /\ pc' = "for"
    /\ UNCHANGED <<manifest, remoteJobs, fault, jcls, k, jcl_name, email,
                   job_id, output_code, logs, rc_stdout, calls, returns,
                   mails, lastStatus, slept, lastReply, earlier>>

\* ForNext that tolerates a row without an address: email = jcl[1] if
\* len(jcl) > 1 else ""
ForNextLenient ==
    /\ pc = "for"
    /\ IF k = Len(jcls)
       THEN /\ pc' = "done"
            /\ UNCHANGED <<k, jcl_name, email, fault>>
       ELSE LET jcl == jcls[k + 1] IN
            /\ k' = k + 1
            /\ IF Len(jcl) < 1
               THEN /\ Raise("IndexError")
                    /\ UNCHANGED <<jcl_name, email>>
               ELSE /\ jcl_name' = jcl[1]
                    /\ email' = IF Len(jcl) < 2 THEN <<>> ELSE jcl[2]
                    /\ pc' = "submit"
                    /\ UNCHANGED fault
    /\ UNCHANGED <<manifest, report, remoteJobs, jcls, job_id, output_code,
                   logs, rc_stdout, calls, returns, mails, rowEntry,
                   lastStatus, slept, lastReply, earlier>>

\* for jcl in jcls: jcl_name = jcl[0]; email = jcl[1]
ForNext ==
    /\ pc = "for"
    /\ IF k = Len(jcls)
       THEN /\ pc' = "done"
            /\ UNCHANGED <<k, jcl_name, email, fault>>
       ELSE LET jcl == jcls[k + 1] IN
            /\ k' = k + 1
            /\ IF Len(jcl) < 1
               THEN /\ Raise("IndexError")
                    /\ UNCHANGED <<jcl_name, email>>
               ELSE /\ jcl_name' = jcl[1]
                    /\ IF Len(jcl) < 2
                       THEN /\ Raise("IndexError")
                            /\ UNCHANGED email
                       ELSE /\ email' = jcl[2]
                            /\ pc' = "submit"
                            /\ UNCHANGED fault
    /\ UNCHANGED <<manifest, report, remoteJobs, jcls, job_id, output_code,
                   logs, rc_stdout, calls, returns, mails, rowEntry,
                   lastStatus, slept, lastReply, earlier>>

\* Submit that keeps a job id it already holds instead of taking the one
\* returned for this entry
SubmitKeepsFirst ==
    /\ pc = "submit"
    /\ calls' = calls \cup {Call("submit", jcl_name)}
    /\ \/ \E result \in SubmitReplies :
             /\ job_id' = IF job_id \in {<<>>, None}
                          THEN submit_jcl(result) ELSE job_id
             /\ returns' = returns \cup {Return("submit", submit_jcl(result))}
             /\ remoteJobs' = IF result.kind = "ok"
                              THEN remoteJobs + 1 ELSE remoteJobs
             /\ lastReply' = Reply("submit", result.kind)
             /\ pc' = "check"
             /\ UNCHANGED fault
       \/ /\ LaunchFails("submit")
          /\ UNCHANGED <<job_id, returns, remoteJobs>>
    /\ UNCHANGED <<manifest, report, jcls, k, jcl_name, email, output_code,
                   logs, rc_stdout, mails, rowEntry, lastStatus, slept,
                   earlier>>

\* job_id = zowe_cli.submit_jcl(jcl_name)
Submit ==
    /\ pc = "submit"
    /\ calls' = calls \cup {Call("submit", jcl_name)}
    /\ \/ \E result \in SubmitReplies :
             /\ job_id' = submit_jcl(result)
             /\ returns' = returns \cup {Return("submit", submit_jcl(result))}
             /\ remoteJobs' = IF result.kind = "ok"
                              THEN remoteJobs + 1 ELSE remoteJobs
             /\ lastReply' = Reply("submit", result.kind)
             /\ pc' = "check"
             /\ UNCHANGED fault
       \/ /\ LaunchFails("submit")
          /\ UNCHANGED <<job_id, returns, remoteJobs>>
    /\ UNCHANGED <<manifest, report, jcls, k, jcl_name, email, output_code,
                   logs, rc_stdout, mails, rowEntry, lastStatus, slept,
                   earlier>>

\* CheckJobId without the continue: the not-found entry falls through to
\* the poll loop
CheckJobIdFallThrough ==
    /\ pc = "check"
    /\ IF job_id = None
       THEN /\ report' = Append(report, NotFoundRow(jcl_name))
            /\ rowEntry' = Append(rowEntry, k)
       ELSE UNCHANGED <<report, rowEntry>>
    /\ pc' = "poll"
    /\ UNCHANGED <<manifest, remoteJobs, fault, jcls, k, jcl_name, email,
                   job_id, output_code, logs, rc_stdout, calls, returns,
                   mails, lastStatus, slept, lastReply, earlier>>

\* CheckJobId with break in place of continue: a not-found entry ends the loop
CheckJobIdBreak ==
    /\ pc = "check"
    /\ IF job_id = None
       THEN /\ report' = Append(report, NotFoundRow(jcl_name))
            /\ rowEntry' = Append(rowEntry, k)
            /\ pc' = "done"
       ELSE /\ pc' = "poll"
            /\ UNCHANGED <<report, rowEntry>>
    /\ UNCHANGED <<manifest, remoteJobs, fault, jcls, k, jcl_name, email,
                   job_id, output_code, logs, rc_stdout, calls, returns,
                   mails, lastStatus, slept, lastReply, earlier>>

\* CheckJobId that writes no row for a not-found entry
CheckJobIdSkipRow ==
    /\ pc = "check"
    /\ pc' = IF job_id = None THEN "for" ELSE "poll"
    /\ UNCHANGED <<manifest, report, rowEntry, remoteJobs, fault, jcls, k,
                   jcl_name, email, job_id, output_code, logs, rc_stdout,
                   calls, returns, mails, lastStatus, slept, lastReply,
                   earlier>>

\* if job_id is None: writer.writerow([jcl_name, "N/A", "Fail", "No"]); continue
CheckJobId ==
    /\ pc = "check"
    /\ IF job_id = None
       THEN /\ report' = Append(report, NotFoundRow(jcl_name))
            /\ rowEntry' = Append(rowEntry, k)
            /\ pc' = "for"
       ELSE /\ pc' = "poll"
            /\ UNCHANGED <<report, rowEntry>>
    /\ UNCHANGED <<manifest, remoteJobs, fault, jcls, k, jcl_name, email,
                   job_id, output_code, logs, rc_stdout, calls, returns,
                   mails, lastStatus, slept, lastReply, earlier>>

\* Poll that does not wait for an unfinished job but goes on to the next entry
PollNoWait ==
    /\ pc = "poll"
    /\ calls' = calls \cup {Call("status", job_id)}
    /\ \/ \E result \in StatusReplies :
             /\ lastStatus' =
                    [entry |-> k, job |-> job_id,
                     terminal |-> Contains(result.stdout, TERMINAL_MARKER)]
             /\ slept' = 0
             /\ lastReply' = Reply("status", result.kind)
             /\ pc' = IF get_job_status(result) THEN "rc" ELSE "for"
             /\ UNCHANGED fault
       \/ /\ LaunchFails("status")
          /\ UNCHANGED <<lastStatus, slept>>
    /\ UNCHANGED <<manifest, report, remoteJobs, jcls, k, jcl_name, email,
                   job_id, output_code, logs, rc_stdout, returns, mails,
                   rowEntry, earlier>>

\* The poll loop with a retry limit: after one wait a status that is still
\* not terminal is given up on and the entry is classified anyway.
PollGivesUp ==
    /\ pc = "poll"
    /\ calls' = calls \cup {Call("status", job_id)}
    /\ \/ \E result \in StatusReplies :
             /\ lastStatus' =
                    [entry |-> k, job |-> job_id,
                     terminal |-> Contains(result.stdout, TERMINAL_MARKER)]
             /\ slept' = 0
             /\ lastReply' = Reply("status", result.kind)
             /\ pc' = IF get_job_status(result) \/ slept > 0
                         THEN "rc" ELSE "sleep"
             /\ UNCHANGED fault
       \/ /\ LaunchFails("status")
          /\ UNCHANGED <<lastStatus, slept>>
    /\ UNCHANGED <<manifest, report, remoteJobs, jcls, k, jcl_name, email,
                   job_id, output_code, logs, rc_stdout, returns, mails,
                   rowEntry, earlier>>

\* The poll loop without its sleep: an unfinished job is queried again at once
PollBusy ==
    /\ pc = "poll"
    /\ calls' = calls \cup {Call("status", job_id)}
    /\ \/ \E result \in StatusReplies :
             /\ lastStatus' =
                    [entry |-> k, job |-> job_id,
                     terminal |-> Contains(result.stdout, TERMINAL_MARKER)]
             /\ slept' = 0
             /\ lastReply' = Reply("status", result.kind)
             /\ pc' = IF get_job_status(result) THEN "rc" ELSE "poll"
             /\ UNCHANGED fault
       \/ /\ LaunchFails("status")
          /\ UNCHANGED <<lastStatus, slept>>
    /\ UNCHANGED <<manifest, report, remoteJobs, jcls, k, jcl_name, email,
                   job_id, output_code, logs, rc_stdout, returns, mails,
                   rowEntry, earlier>>

\* while not zowe_cli.get_job_status(job_id):
Poll ==
    /\ pc = "poll"
    /\ calls' = calls \cup {Call("status", job_id)}
    /\ \/ \E result \in StatusReplies :
             /\ lastStatus' =
                    [entry |-> k, job |-> job_id,
                     terminal |-> Contains(result.stdout, TERMINAL_MARKER)]
             /\ slept' = 0
             /\ lastReply' = Reply("status", result.kind)
             /\ pc' = IF get_job_status(result) THEN "rc" ELSE "sleep"
             /\ UNCHANGED fault
       \/ /\ LaunchFails("status")
          /\ UNCHANGED <<lastStatus, slept>>
    /\ UNCHANGED <<manifest, report, remoteJobs, jcls, k, jcl_name, email,
                   job_id, output_code, logs, rc_stdout, returns, mails,
                   rowEntry, earlier>>

\*     time.sleep(5)
Sleep ==
    /\ pc = "sleep"
    /\ slept' = slept + SleepSeconds
    /\ pc' = "poll"
    /\ UNCHANGED <<manifest, report, remoteJobs, fault, jcls, k, jcl_name,
                   email, job_id, output_code, logs, rc_stdout, calls,
                   returns, mails, rowEntry, lastStatus, lastReply, earlier>>

\* output_code = zowe_cli.get_output_code(job_id)
GetOutputCode ==
    /\ pc = "rc"
    /\ calls' = calls \cup {Call("rc", job_id)}
    /\ \/ \E result \in RcReplies :
             /\ rc_stdout' = result.stdout
             /\ output_code' = get_output_code(result.stdout)
             /\ returns' = returns \cup
                              {Return("rc", get_output_code(result.stdout))}
             /\ lastReply' = Reply("rc", result.kind)
             /\ pc' = "logs"
             /\ UNCHANGED fault
       \/ /\ LaunchFails("rc")
          /\ UNCHANGED <<rc_stdout, output_code, returns>>
    /\ UNCHANGED <<manifest, report, remoteJobs, jcls, k, jcl_name, email,
                   job_id, logs, mails, rowEntry, lastStatus, slept, earlier>>

\* logs = zowe_cli.get_job_logs(job_id)
GetJobLogs ==
    /\ pc = "logs"
    /\ calls' = calls \cup {Call("logs", job_id)}
    /\ \/ \E result \in LogReplies :
             /\ logs' = get_job_logs(result)
             /\ returns' = returns \cup {Return("logs", get_job_logs(result))}
             /\ lastReply' = Reply("logs", result.kind)
             /\ pc' = "email"
             /\ UNCHANGED fault
       \/ /\ LaunchFails("logs")
          /\ UNCHANGED <<logs, returns>>
    /\ UNCHANGED <<manifest, report, remoteJobs, jcls, k, jcl_name, email,
                   job_id, output_code, rc_stdout, mails, rowEntry,
                   lastStatus, slept, earlier>>

\* zowe_cli.send_email(email, "JCL Execution Logs", logs): the shell command
\* is run without check, so main() goes on whether or not the mail left
SendEmail ==
    /\ pc = "email"
    /\ mails' = Append(mails, Mail(email, EMAIL_SUBJECT, logs))
    /\ pc' = "write"
    /\ UNCHANGED <<manifest, report, remoteJobs, fault, jcls, k, jcl_name,
                   email, job_id, output_code, logs, rc_stdout, calls,
                   returns, rowEntry, lastStatus, slept, lastReply, earlier>>

\* WriteRow on a report reopened with mode 'w' for every row: the rows
\* written before are lost
WriteRowReopen ==
    /\ pc = "write"
    /\ report' = <<HEADER, OutcomeRow(jcl_name, output_code)>>
    /\ rowEntry' = <<k>>
    /\ pc' = "for"
    /\ UNCHANGED <<manifest, remoteJobs, fault, jcls, k, jcl_name, email,
                   job_id, output_code, logs, rc_stdout, calls, returns,
                   mails, lastStatus, slept, lastReply, earlier>>

\* writer.writerow([jcl_name, output_code, "Pass" if ... else "Fail", "Yes"])
WriteRow ==
    /\ pc = "write"
    /\ report' = Append(report, OutcomeRow(jcl_name, output_code))
    /\ rowEntry' = Append(rowEntry, k)
    /\ pc' = "for"
    /\ UNCHANGED <<manifest, remoteJobs, fault, jcls, k, jcl_name, email,
                   job_id, output_code, logs, rc_stdout, calls, returns,
                   mails, lastStatus, slept, lastReply, earlier>>

Ended == pc \in {"done", "crashed"}

Next ==
    \/ ReadManifest
    \/ OpenReport
    \/ ForNext
    \/ Submit
    \/ CheckJobId
    \/ Poll
    \/ Sleep
    \/ GetOutputCode
    \/ GetJobLogs
    \/ SendEmail
    \/ WriteRow

Spec == Init /\ [][Next]_vars

\* A status query that reports the terminal indicator: the while loop of
\* line 191 is left.
PollTerminal == Poll /\ pc' = "rc"

\* main() under the conditions of its termination: the interpreter goes on
\* executing main() for as long as a statement is left, and a job whose
\* status is queried again and again is at some query reported terminal.
SpecLive ==
    /\ Init
    /\ [][Next]_vars
    /\ WF_vars(Next)
    /\ SF_vars(PollTerminal)

----------------------------------------------------------------------------
(* A second run: main() is started again on the same manifest, with the    *)
(* report of the first run still on disk and the remote system as the      *)
(* first run left it. The first run is one in which every remote command   *)
(* could be run (no exception of subprocess.run ended it).                 *)

Rerun ==
    /\ Ended
    /\ fault # "OSError"
    /\ ~rerun
    /\ rerun' = TRUE
    /\ prevShape' = Shape(report)
    /\ prevFault' = fault
    /\ pc' = "read"
    /\ fault' = "none"
    /\ jcls' = <<>>
    /\ k' = 0
    /\ jcl_name' = <<>>
    /\ email' = <<>>
    /\ job_id' = <<>>
    /\ output_code' = <<>>
    /\ logs' = <<>>
    /\ rc_stdout' = <<>>
    /\ calls' = {}
    /\ returns' = {}
    /\ mails' = <<>>
    /\ lastStatus' = NoStatus
    /\ slept' = 0
    /\ lastReply' = NoReply
    /\ UNCHANGED <<manifest, report, rowEntry, remoteJobs>>

NextRerun == Next \/ Rerun

SpecRerun == Init /\ [][NextRerun]_vars

----------------------------------------------------------------------------
(* get_output_code alone, on every short response text *)

Alphabet == {" ", "\t", "\n", "0", "8"}

Texts == UNION { [1..n -> Alphabet] : n \in 0..MaxLen }

InitParse ==
    /\ rc_stdout \in Texts
    /\ pc = "rc_result"
    /\ manifest = <<>>
    /\ report = <<>>
    /\ rowEntry = <<>>
    /\ remoteJobs = 0
    /\ rerun = FALSE
    /\ prevShape = NoShape
    /\ prevFault = "none"
    /\ fault = "none"
    /\ jcls = <<>>
    /\ k = 0
    /\ jcl_name = <<>>
    /\ email = <<>>
    /\ job_id = <<>>
    /\ output_code = <<>>
    /\ logs = <<>>
    /\ calls = {}
    /\ returns = {}
    /\ mails = <<>>
    /\ lastStatus = NoStatus
    /\ slept = 0
    /\ lastReply = NoReply

\* output_code = result.stdout.split(" ")[-1].strip(); return output_code
ParseCode ==
    /\ pc = "rc_result"
    /\ output_code' = get_output_code(rc_stdout)
    /\ pc' = "rc_returned"
    /\ UNCHANGED <<manifest, report, remoteJobs, fault, jcls, k, jcl_name,
                   email, job_id, logs, rc_stdout, calls, returns, mails,
                   rowEntry, lastStatus, slept, lastReply, earlier>>

SpecParse == InitParse /\ [][ParseCode]_vars

----------------------------------------------------------------------------
(* Properties *)

Range(seq) == { seq[j] : j \in 1..Len(seq) }

\* entries for which a submission was issued
Submitted == { c.entry : c \in { x \in calls : x.op = "submit" } }

\* entries whose submission returned None
NotFoundEntries ==
    { r.entry : r \in { x \in returns : x.op = "submit" /\ x.ret = None } }

\* the report row written for manifest position e
HasRow(e) == e \in Range(rowEntry)

RowOf(e) == report[1 + CHOOSE j \in 1..Len(rowEntry) : rowEntry[j] = e]

MailsOf(e) == { j \in 1..Len(mails) : mails[j].entry = e }

OneRowPerPosition ==
    /\ Len(rowEntry) = (IF report = <<>> THEN 0 ELSE Len(report) - 1)
    /\ \A a, b \in 1..Len(rowEntry) : rowEntry[a] = rowEntry[b] => a = b
    /\ Range(rowEntry) \subseteq 1..Len(manifest)

\* C1 (as amended): no reachable state has two report rows for the same
\* manifest position, and when main() has returned normally every manifest
\* entry has its row.
C1_OneRowPerEntry ==
    /\ OneRowPerPosition
    /\ pc = "done" => Range(rowEntry) = 1..Len(manifest)

\* C1 (as stated): no two rows for the same manifest position, and when the
\* run of main() has ended, however it ended, every manifest entry has its row.
C1_Original ==
    /\ OneRowPerPosition
    /\ Ended => Range(rowEntry) = 1..Len(manifest)

\* C1 witness: a finished run over two entries, the first not found and the
\* second run to its outcome, one row each.
C1_Witness ==
    /\ pc = "done"
    /\ Len(manifest) = 2
    /\ Len(report) = 3
    /\ report[2][4] = NO
    /\ report[3][4] = YES

\* C2: an entry whose submission reports the job definition as missing
\* (submit_jcl returns None exactly when the reply carries the not-found
\* marker) gets the row (job_reference, "N/A", "Fail", "No"), after which
\* main() is back at the loop head and takes the next manifest entry: the
\* run ends after it only when it was the last entry.
C2_NotFoundRowThenNext ==
    /\ (pc = "check" /\ lastReply.op = "submit")
          => (job_id = None <=> lastReply.kind = "notfound")
    /\ \A e \in NotFoundEntries :
          /\ (pc = "check" /\ k = e)
                \/ (HasRow(e) /\ RowOf(e) = <<manifest[e][1], NA, FAIL, NO>>)
          /\ k >= e
          /\ k = e => \/ pc \in {"check", "for"}
                      \/ pc = "done" /\ e = Len(manifest)
          /\ k > e => \/ Len(manifest[e + 1]) < 2
                      \/ pc = "submit" /\ k = e + 1
                      \/ [op |-> "submit", entry |-> e + 1,
                          arg |-> manifest[e + 1][1]] \in calls

\* C2 witness: entry 1 was not found and has its row, and entry 2 has been
\* submitted.
C2_Witness ==
    /\ 1 \in NotFoundEntries
    /\ HasRow(1)
    /\ 2 \in Submitted

\* C3: in the row of every entry whose return code was extracted, the
\* verdict is "Pass" iff the extracted code is textually "0000" and "Fail"
\* otherwise, and the return-code column is the extracted code unchanged.
C3_VerdictIffSuccessCode ==
    \A r \in returns :
        (r.op = "rc" /\ HasRow(r.entry)) =>
            /\ RowOf(r.entry)[2] = r.ret
            /\ RowOf(r.entry)[3] = (IF r.ret = SUCCESS_CODE THEN PASS ELSE FAIL)
            /\ RowOf(r.entry)[4] = YES

\* C3 witness: a report with a "0000" row that passes and a "0" row that
\* fails.
C3_Witness ==
    /\ Len(report) = 3
    /\ report[2][2] = SUCCESS_CODE /\ report[2][3] = PASS
    /\ report[3][2] = <<"0">> /\ report[3][3] = FAIL

\* C4: the job references of the report's data rows are a prefix of the job
\* references of the manifest: row j belongs to manifest entry j.
C4_RowsInManifestOrder ==
    /\ Len(rowEntry) = (IF report = <<>> THEN 0 ELSE Len(report) - 1)
    /\ Len(rowEntry) <= Len(manifest)
    /\ \A j \in 1..Len(rowEntry) :
          /\ rowEntry[j] = j
          /\ report[j + 1][1] = manifest[j][1]

\* C4 witness: two rows, for two different job references, in the order of
\* the manifest.
C4_Witness ==
    /\ Len(report) = 3
    /\ report[2][1] = MISSING99
    /\ report[3][1] = PAYROLL01

RemotePc == {"submit", "poll", "rc", "logs"}

\* where each of them leads when the command returns a result that carries
\* neither the not-found marker nor the terminal indicator
AfterReply(p) ==
    CASE p = "submit" -> "check"
      [] p = "poll"   -> "sleep"
      [] p = "rc"     -> "logs"
      [] OTHER        -> "email"

C7_OneEntryAtATime ==
    /\ Cardinality(Submitted \ Range(rowEntry)) <= 1
    /\ (Submitted \ Range(rowEntry)) \subseteq {k}
    /\ \A e \in Submitted : e > 1 => HasRow(e - 1)
    /\ \A c \in calls :
          c.op \in {"status", "rc", "logs"} =>
              /\ c.entry \in Submitted
              /\ [op |-> "submit", entry |-> c.entry, ret |-> c.arg] \in returns
              /\ c.entry = k => c.arg = job_id

\* C7 witness: entry 1 has its row and entry 2 is being polled.
C7_Witness ==
    /\ pc = "sleep"
    /\ k = 2
    /\ Range(rowEntry) = {1}
    /\ Submitted = {1, 2}

TrailingToken(s) ==
    LET t == RStrip(s)
        cut == { i \in 1..Len(t) : t[i] \in Whitespace }
        from == IF cut = {} THEN 0
                ELSE CHOOSE i \in cut : \A j \in cut : j <= i
    IN  SubSeq(t, from + 1, Len(t))

\* C9 (as stated): for every response text, get_output_code returns the
\* trailing whitespace-delimited token of the response.
C9_TrailingToken ==
    pc = "rc_returned" => output_code = TrailingToken(rc_stdout)

\* C10: a return-code or log query is issued only for a job whose latest
\* status query reported the terminal indicator, and never for a job that
\* was not queried for status.
C10_QueriesAfterTerminal ==
    \A c \in calls :
        c.op \in {"rc", "logs"} =>
            /\ [op |-> "status", entry |-> c.entry, arg |-> c.arg] \in calls
            /\ c.entry = k =>
                  lastStatus = [entry |-> k, job |-> c.arg, terminal |-> TRUE]

\* C10 witness: the log query of the second entry has been issued.
C10_Witness ==
    /\ k = 2
    /\ pc = "email"
    /\ \E c \in calls : c.op = "logs" /\ c.entry = 2

\* C11: an entry whose submission returned None is short-circuited: the only
\* remote command ever issued for it is its submission, it is never waited
\* for, no return code or log text is obtained for it, no send_email call is
\* made for it, and it has at most one row, which it has once main() is
\* past the check of job_id.
C11_NotFoundShortCircuits ==
    \A e \in NotFoundEntries :
        /\ { c \in calls : c.entry = e }
              = { [op |-> "submit", entry |-> e, arg |-> manifest[e][1]] }
        /\ { r.op : r \in { x \in returns : x.entry = e } } = {"submit"}
        /\ MailsOf(e) = {}
        /\ lastStatus.entry # e
        /\ Cardinality({ j \in 1..Len(rowEntry) : rowEntry[j] = e }) <= 1
        /\ k = e => (pc \in {"check", "for", "done"} /\ slept = 0)
        /\ (k > e \/ pc # "check") => HasRow(e)

\* C11 witness: a finished run in which entry 1 was not found and entry 2
\* was polled, classified and mailed.
C11_Witness ==
    /\ pc = "done"
    /\ NotFoundEntries = {1}
    /\ HasRow(1)
    /\ Len(mails) = 1
    /\ mails[1].entry = 2

\* main() is inside the loop of lines 191-192.
InPollLoop == pc \in {"poll", "sleep"}

\* C12: the poll loop has no timeout and no retry limit.  A step taken
\* inside the loop stays inside it unless the status query of that step
\* reported the terminal indicator for the entry being processed (or
\* subprocess.run raised); and for as long as main() is in that loop no row
\* is written for the entry, no send_email call is made for it and no later
\* manifest entry is submitted, so a job that never reports the terminal
\* indicator keeps the run in the loop for ever.
C12_StallsUntilTerminal ==
    [][ InPollLoop =>
          /\ ~HasRow(k)
          /\ MailsOf(k) = {}
          /\ \A e \in Submitted : e <= k
          /\ \/ /\ InPollLoop'
                /\ UNCHANGED <<report, rowEntry, mails, k, job_id>>
                /\ { c \in calls' : c.op = "submit" }
                      = { c \in calls : c.op = "submit" }
             \/ /\ pc' = "rc"
                /\ lastStatus' = [entry |-> k, job |-> job_id,
                                  terminal |-> TRUE]
             \/ /\ pc' = "crashed"
                /\ fault' = "OSError" ]_vars

\* C12 witness: entry 1 of a two-entry manifest has been polled, was not
\* terminal, has been waited for and is about to be polled again, while
\* entry 2 has not been submitted.
C12_Witness ==
    /\ pc = "poll"
    /\ k = 1
    /\ Len(manifest) = 2
    /\ lastStatus = [entry |-> 1, job |-> job_id, terminal |-> FALSE]
    /\ slept = SleepSeconds
    /\ report = <<HEADER>>
    /\ mails = <<>>
    /\ Submitted = {1}

\* C13: a submission whose remote command failed with an error other than
\* the not-found marker is treated as a success.  submit_jcl returns the
\* stripped stdout of the reply (here the empty text), never None; the check
\* of job_id then writes no row and enters the poll loop, as it does after
\* an accepted submission, and the first status query carries that handle.
C13_ErrorSubmissionLooksLikeSuccess ==
    [][ /\ \A result \in SubmitReplies :
              result.kind = "error"
                 => /\ submit_jcl(result) = Strip(result.stdout)
                    /\ submit_jcl(result) # None
        /\ (pc = "submit" /\ lastReply'.kind = "error")
              => /\ job_id' = <<>>
                 /\ [op |-> "submit", entry |-> k, ret |-> <<>>] \in returns'
                 /\ pc' = "check"
        /\ (pc = "check" /\ lastReply.kind \in {"ok", "error"})
              => /\ pc' = "poll"
                 /\ UNCHANGED <<report, rowEntry, mails, job_id>>
        /\ (pc = "poll" /\ lastReply = [op |-> "submit", entry |-> k,
                                         kind |-> "error"])
              => [op |-> "status", entry |-> k, arg |-> <<>>] \in calls'
      ]_vars

\* C13 witness: the submission of entry 1 returned an error reply, and the
\* status of the empty job id has been queried and is being waited for.
C13_Witness ==
    /\ pc = "sleep"
    /\ k = 1
    /\ job_id = <<>>
    /\ [op |-> "submit", entry |-> 1, ret |-> <<>>] \in returns
    /\ [op |-> "status", entry |-> 1, arg |-> <<>>] \in calls
    /\ lastStatus = [entry |-> 1, job |-> <<>>, terminal |-> FALSE]

\* The positions of the data rows whose "Email Sent" column is the given text.
RowsSaying(sent) == { j \in 1..Len(rowEntry) : report[j + 1][4] = sent }

\* C14: the "Email Sent" column agrees with the send_email calls.  A row
\* saying "Yes" belongs to an entry for which send_email has been called, a
\* row saying "No" to an entry for which it has not, every data row says one
\* or the other, and the number of send_email calls is the number of "Yes"
\* rows or one more (the call at line 196 precedes the row of line 198).
C14_EmailSentAgreesWithMails ==
    /\ Len(report) = IF pc \in {"read", "open"} THEN 0 ELSE Len(rowEntry) + 1
    /\ RowsSaying(YES) \cup RowsSaying(NO) = 1..Len(rowEntry)
    /\ \A j \in RowsSaying(YES) : MailsOf(rowEntry[j]) # {}
    /\ \A j \in RowsSaying(NO) : MailsOf(rowEntry[j]) = {}
    /\ Len(mails) - Cardinality(RowsSaying(YES)) \in {0, 1}
    /\ Len(mails) = Cardinality(RowsSaying(YES)) + 1 <=> pc = "write"

\* C14 witness: entry 1 has a "No" row, and send_email has been called for
\* entry 2, whose "Yes" row is not yet written.
C14_Witness ==
    /\ pc = "write"
    /\ k = 2
    /\ RowsSaying(NO) = {1}
    /\ RowsSaying(YES) = {}
    /\ Len(mails) = 1
    /\ mails[1].entry = 2

\* The status, return-code and log queries made so far.
Queries == { c \in calls : c.op \in {"status", "rc", "logs"} }

Polled == lastStatus.entry = k /\ lastStatus.job = job_id

\* C16: the shape of the poll loop.  slept is the time waited since the last
\* status query.  The first status query of a job is made without a wait; a
\* repeated one is made after exactly one wait of SleepSeconds and only
\* after a reply that was not terminal; a wait is entered only right after
\* such a reply; and the return code, the log text, the message and the row
\* of an entry come only after a terminal reply to a status query for it,
\* with no wait in between.
C16_PollLoopShape ==
    [][ /\ SleepSeconds = 5
        /\ slept \in {0, SleepSeconds}
        /\ pc = "poll" =>
              IF Polled
              THEN slept = SleepSeconds /\ ~lastStatus.terminal
              ELSE slept = 0 /\ lastStatus.entry < k
        /\ pc = "sleep" => (Polled /\ ~lastStatus.terminal /\ slept = 0)
        /\ slept' # slept =>
              \/ pc = "sleep" /\ pc' = "poll" /\ slept' = slept + SleepSeconds
              \/ pc = "poll" /\ slept' = 0
        /\ pc' = "sleep" => (pc = "poll" /\ ~lastStatus'.terminal)
        /\ pc \in {"rc", "logs", "email", "write"} =>
              (Polled /\ lastStatus.terminal /\ slept = 0)
        /\ (pc = "poll" /\ ~Polled /\ pc' = "rc") =>
              (slept = 0 /\ slept' = 0)
        /\ \A c \in calls' :
              c.op \in {"rc", "logs"} =>
                 [op |-> "status", entry |-> c.entry, arg |-> c.arg] \in calls
      ]_vars

\* C16 witness: the job of entry 2 was not terminal at its first status
\* query and main() has waited once and is about to query it again.
C16_Witness ==
    /\ pc = "poll"
    /\ k = 2
    /\ Polled
    /\ ~lastStatus.terminal
    /\ slept = SleepSeconds

\* s is an initial part of t.
IsPrefix(s, t) == Len(s) <= Len(t) /\ SubSeq(t, 1, Len(s)) = s

\* C17: the report is append-only within a run, and a run ended by a fault
\* at entry k leaves the header and exactly the rows of entries 1..k-1.
\* Every step leaves the rows written so far where they are and adds at
\* most one row at the end; once the run has ended by a fault the rows are
\* those of entries 1..k-1 in order, none for entry k or a later entry, and
\* they no longer change.
C17_AppendOnlyPartialReport ==
    [][ /\ IsPrefix(report, report')
        /\ IsPrefix(rowEntry, rowEntry')
        /\ Len(report') <= Len(report) + 1
        /\ pc = "crashed" =>
              /\ fault \in {"IndexError", "OSError"}
              /\ Len(report) = k
              /\ report[1] = HEADER
              /\ rowEntry = [e \in 1..(k - 1) |-> e]
              /\ \A e \in 1..(k - 1) : report[e + 1][1] = manifest[e][1]
              /\ \A e \in k..Len(manifest) : ~HasRow(e)
              /\ report' = report
      ]_vars

\* C17 witness: the run has ended by a fault at entry 2 and the report
\* holds the header and the row of entry 1.
C17_Witness ==
    /\ pc = "crashed"
    /\ k = 2
    /\ Len(report) = 2
    /\ rowEntry = <<1>>
    /\ report[2][1] = manifest[1][1]

\* The positions of the report that hold the header row.
HeaderRows == { j \in 1..Len(report) : report[j] = HEADER }

\* C18: the header row is written exactly once, before any remote call.
\* Until the report is opened it holds nothing and no remote command and no
\* send_email call has been made; from then on the header is its first row
\* and occurs nowhere else; and with an empty manifest the run only reads,
\* opens and ends, with the header alone and without any remote command or
\* send_email call.
C18_HeaderOnceAndFirst ==
    /\ HEADER = << <<"J","C","L"," ","N","a","m","e">>,
                   <<"O","u","t","p","u","t"," ","C","o","d","e">>,
                   <<"J","C","L"," ","P","a","s","s","/","F","a","i","l">>,
                   <<"E","m","a","i","l"," ","S","e","n","t">> >>
    /\ pc \in {"read", "open"} =>
          (report = <<>> /\ calls = {} /\ mails = <<>> /\ returns = {})
    /\ pc \notin {"read", "open"} => HeaderRows = {1}
    /\ manifest = <<>> =>
          /\ pc \in {"read", "open", "for", "done"}
          /\ calls = {}
          /\ mails = <<>>
          /\ pc \in {"for", "done"} => report = <<HEADER>>

\* C18 witness: the run over an empty manifest has ended with the header
\* alone.
C18_Witness ==
    /\ manifest = <<>>
    /\ pc = "done"
    /\ report = <<HEADER>>
    /\ calls = {}

\* Every manifest row has the job-reference and the address column.
WellFormedManifest == \A e \in 1..Len(manifest) : Len(manifest[e]) >= 2

\* The report holds the header and one row per manifest entry, in order.
FullReport ==
    /\ Len(report) = Len(manifest) + 1
    /\ report[1] = HEADER
    /\ rowEntry = [e \in 1..Len(manifest) |-> e]
    /\ \A e \in 1..Len(manifest) : report[e + 1][1] = manifest[e][1]

\* subprocess.run has raised in the remote command of the given kind.
Raised(op) == lastReply.op = op /\ lastReply.kind = "raise"

ShortRows == { e \in 1..k : Len(manifest[e]) < 2 }

\* C20: a manifest row that lacks the job-reference or the address column
\* ends the batch at that row, before any remote command for it.  Such a row
\* is reached only as the entry at which main() has ended with an
\* IndexError; nothing was submitted or queried for it, no send_email call
\* was made for it, the report holds the header and the rows of the entries
\* before it and no other row, and that the run ended this way means the
\* row was short.
C20_ShortRowHaltsBatch ==
    /\ \A e \in ShortRows :
          /\ e = k
          /\ pc = "crashed"
          /\ fault = "IndexError"
          /\ \A c \in calls : c.entry < e
          /\ \A r \in returns : r.entry < e
          /\ \A j \in 1..Len(mails) : mails[j].entry < e
          /\ rowEntry = [i \in 1..(e - 1) |-> i]
          /\ Len(report) = e
          /\ \A i \in 1..(e - 1) : report[i + 1][1] = manifest[i][1]
    /\ fault = "IndexError" => k \in ShortRows
    /\ pc = "crashed" => fault \in {"IndexError", "OSError"}

\* C20 witness: the second row of the manifest has no address column; the
\* run has ended there with the row of entry 1 in the report.
C20_Witness ==
    /\ fault = "IndexError"
    /\ k = 2
    /\ Len(manifest[2]) = 1
    /\ Len(report) = 2
    /\ rowEntry = <<1>>
    /\ \E c \in calls : c.entry = 1

=============================================================================
